---- MODULE Spec2Model ----
(***************************************************************************)
(* Playback position engine of OpenBinaryWaterFall: the audio callback     *)
(* (position += advance; handleLoop; byte lookup; sample synthesis), the  *)
(* key commands that reconfigure it and the main loop that renders the     *)
(* frame at the position, for the multiplier variant                       *)
(* (src/OpenBinaryWaterFall.cpp) and the frequency variant                 *)
(* (src/burn/OPENBinarywaterFALL.cpp).                                     *)
(*                                                                         *)
(* Numbers.  The program keeps positions, loop bounds and advances in C    *)
(* doubles.  The model keeps them in a binary floating-point format of     *)
(* the same shape with a short mantissa: a value is an integer count of    *)
(* ticks (TicksPerByte ticks to the byte), representable when it is        *)
(* m * 2^k with |m| < 2^MantBits, and every +, -, * and / rounds to the    *)
(* nearest representable value, ties to even, as IEEE-754 does.  fmod is   *)
(* exact, as in C.  The playback multiplier is kept in exact tenths.  The  *)
(* volume and the samples are floats in volume ticks (VolumeOne = 1.0f).   *)
(***************************************************************************)
EXTENDS Integers, FiniteSets, Sequences, TLC

VARIABLES
    fileSize,            \* fileData.size(), in bytes
    fileData,            \* the contents of fileData, as a named fill pattern
    audioVolume,         \* audioVolume, in volume ticks (VolumeOne = 1.0f)
    val,                 \* the byte the callback last read: fileData[index]
    outLeft,             \* the sample last written to the left output buffer
    outRight,            \* the sample last written to the right output buffer
    rendered,            \* the frame indices the last renderFrame drew
    pixels,              \* the colours the last renderFrame drew, with their bytes
    seen,                \* what a handleLoop call in progress has read so far
    currentFrame,        \* currentFrame of the last title-bar update
    totalFrames,         \* totalFrames
    isPaused,            \* isPaused
    isAudioEnabled,      \* isAudioEnabled
    jackClient,          \* jackClient != NULL: the client is open and activated
    session,             \* where main is: "dialog" (not started), "running", "exited"
    lastLoad,            \* the file handed to loadMediaFile and what it returned
    playbackMultiplier,  \* playbackMultiplier, in tenths (10 = 1.0)
    playbackFrequency,   \* playbackFrequency, in Hz (frequency variant)
    audioPosition,       \* audioPosition, in ticks
    loopEnabled,         \* loopEnabled
    boomerangMode,       \* boomerangMode
    loopStart,           \* loopStart, in ticks
    loopEnd,             \* loopEnd, in ticks
    framesLeft,          \* samples the running callback still has to emit (0: no callback running)
    effectiveAdvance,    \* the callback's local effectiveAdvance / bytesPerSample, in ticks
    index,               \* the index of the last fileData[index] read by the callback
    posBefore,           \* audioPosition before the last sample's advance
    rateBefore,          \* the rate (multiplier or frequency) before the last sample
    branch,              \* the branch of handleLoop the last sample took
    prevBranch,          \* the branch the sample before it took
    lastOp,              \* the kind of the last step
    keyCount             \* key commands issued so far

vars == <<fileSize, fileData, audioVolume, val, outLeft, outRight, rendered, pixels, seen,
          currentFrame, jackClient, session, lastLoad, totalFrames, isPaused, isAudioEnabled, playbackMultiplier,
          playbackFrequency, audioPosition, loopEnabled, boomerangMode, loopStart,
          loopEnd, framesLeft, effectiveAdvance, index, posBefore, rateBefore,
          branch, prevBranch, lastOp, keyCount>>

\* ---------------------------------------------------------------- bounds
\* Mantissa bits of the model's floating-point format (a double has 53).
MantBits == 6
\* log2 of the ticks in one byte: positions resolve to 1/2^FracBits byte.
FracBits == 1
\* FRAME_WIDTH * FRAME_HEIGHT, in bytes, scaled down.
FrameBytes == 32
\* Most samples one callback is asked for (nframes).
MaxFrames == 2
\* Most key commands in one run.
MaxKeys == 2
\* Most frames one renderFrame tiles the window with (rows * columns).
MaxTiles == 2
\* sampleRate, as reported by the audio server at start-up.
sampleRate == 5

\* ------------------------------------------------------ program constants
DefaultLoopFrames == 34
BASE_FRAME_RATE == 24
DEFAULT_FREQUENCY == 24
InitialFrequency == 14000
MaxFrequency == 1000000

\* ------------------------------------------------------------ arithmetic
RECURSIVE Pow2(_)
Pow2(n) == IF n = 0 THEN 1 ELSE 2 * Pow2(n - 1)

Abs(x) == IF x < 0 THEN -x ELSE x

TicksPerByte == Pow2(FracBits)

\* The spacing of the representable values around magnitude a.
RECURSIVE Grid(_, _)
Grid(a, g) == IF a < Pow2(MantBits) * g THEN g ELSE Grid(a, 2 * g)

Representable(x) == Abs(x) % Grid(Abs(x), 1) = 0

\* num/den rounded to the nearest representable value, ties to even.
RoundQ(num, den) ==
    LET a  == Abs(num)
        g  == Grid(a \div den, 1)
        q  == a \div (g * den)
        r  == a % (g * den)
        up == \/ 2 * r > g * den
              \/ 2 * r = g * den /\ q % 2 = 1
        m  == (IF up THEN q + 1 ELSE q) * g
    IN  IF num < 0 THEN -m ELSE m

RoundD(x) == RoundQ(x, 1)
FAdd(a, b) == RoundD(a + b)
FSub(a, b) == RoundD(a - b)

\* std::fmod: the remainder of a truncating division, with the sign of x.
Fmod(x, y) == IF x < 0 THEN -((-x) % y) ELSE x % y

\* static_cast<double>(n) of a byte count.
ToTicks(bytes) == RoundD(bytes * TicksPerByte)

\* ------------------------------------------------------------- the core
\* wrapPosition(pos, fileSize)
wrapPosition(pos, fs) ==
    IF pos < 0
    THEN LET m == Fmod(pos, fs)
         IN  IF m < 0 THEN FAdd(m, fs) ELSE m
    ELSE IF pos >= fs THEN Fmod(pos, fs) ELSE pos

\* Mutant of ReflectDown: the overshoot is dropped, position stops at the bound.
ReflectDownNoOvershoot(pos, bound) == bound

\* overshoot = pos - bound; pos = bound - overshoot
ReflectDown(pos, bound) == FSub(bound, FSub(pos, bound))

\* overshoot = bound - pos; pos = bound + overshoot
ReflectUp(pos, bound) == FAdd(bound, FSub(bound, pos))

\* Mutant of DegenerateLoop: the one-point loop is not recognised.
DegenerateLoopMissed == FALSE

\* if (loopStart == loopEnd): the degenerate loop
DegenerateLoop == loopStart = loopEnd

\* Mutant of ForwardExitTarget: a forward exit resumes beyond the loop.
ForwardExitTargetBeyond == FAdd(loopEnd, loopEnd)

\* audioPosition = loopStart: where a forward exit resumes, boomerang off
ForwardExitTarget == loopStart

\* Mutant of ReverseExitTarget: a backward exit resumes at loopStart.
ReverseExitTargetSwapped == loopStart

\* audioPosition = loopEnd: where a backward exit resumes, boomerang off
ReverseExitTarget == loopEnd

\* handleLoop(fileSize, advance), applied to the audioPosition the caller has
\* just stepped to (pos).  pos: the audioPosition it leaves; flip: whether it
\* negated the rate; branch: the branch it took.
handleLoop(pos, fs, advance) ==
    LET forward == advance > 0
        w == wrapPosition(pos, fs)
    IN
    IF ~loopEnabled
    THEN [pos |-> w, flip |-> FALSE, branch |-> "wrap"]
    ELSE IF DegenerateLoop
    THEN [pos |-> loopStart, flip |-> FALSE, branch |-> "pin"]
    ELSE IF loopStart < loopEnd
    THEN IF forward /\ pos > loopEnd
         THEN IF boomerangMode
              THEN [pos |-> ReflectDown(pos, loopEnd), flip |-> TRUE, branch |-> "reflectEnd"]
              ELSE [pos |-> ForwardExitTarget, flip |-> FALSE, branch |-> "toStart"]
         ELSE IF ~forward /\ pos < loopStart
         THEN IF boomerangMode
              THEN [pos |-> ReflectUp(pos, loopStart), flip |-> TRUE, branch |-> "reflectStart"]
              ELSE [pos |-> ReverseExitTarget, flip |-> FALSE, branch |-> "toEnd"]
         ELSE [pos |-> pos, flip |-> FALSE, branch |-> "inside"]
    ELSE IF forward /\ w > loopEnd /\ w < loopStart
         THEN IF boomerangMode
              THEN [pos |-> ReflectDown(w, loopEnd), flip |-> TRUE, branch |-> "wReflectEnd"]
              ELSE [pos |-> ForwardExitTarget, flip |-> FALSE, branch |-> "wToStart"]
         ELSE IF ~forward /\ (w < loopEnd \/ w > loopStart)
         THEN IF boomerangMode
              THEN [pos |-> IF w < loopEnd THEN ReflectUp(w, loopEnd)
                                           ELSE ReflectDown(w, loopStart),
                    flip |-> TRUE, branch |-> "wReflect"]
              ELSE [pos |-> ReverseExitTarget, flip |-> FALSE, branch |-> "wToEnd"]
         ELSE [pos |-> w, flip |-> FALSE, branch |-> "wInside"]

\* static_cast<size_t>(pos): truncation toward zero; undefined for a value
\* of -1.0 or below, where it may produce any size_t: the first index, the
\* last index, or a value past the end (fs stands for every value >= fs).
CastSizeT(pos, fs) ==
    IF pos >= 0 THEN {pos \div TicksPerByte}
    ELSE IF pos > -TicksPerByte THEN {0}
    ELSE {0, fs - 1, fs}

\* size_t index = static_cast<size_t>(audioPosition);
\* if (index >= fileData.size()) index = fileData.size() - 1;
ClampIndex(i, fs) == IF i >= fs THEN fs - 1 ELSE i

\* baseAdvancement = (frameBytes * BASE_FRAME_RATE) / sampleRate
baseAdvancement == RoundQ(FrameBytes * TicksPerByte * BASE_FRAME_RATE, sampleRate)

\* effectiveAdvance = baseAdvancement * playbackMultiplier
EffectiveAdvance(mult) == RoundQ(baseAdvancement * mult, 10)

\* bytesPerSample = (double)playbackFrequency / (double)DEFAULT_FREQUENCY
BytesPerSample(freq) == RoundQ(freq * TicksPerByte, DEFAULT_FREQUENCY)

\* Mutant of calculateLogAdjustment: the middle rung starts at 0.5, not 1.0.
calculateLogAdjustmentEarly(m) ==
    IF Abs(m) < 5 THEN 1 ELSE IF Abs(m) < 100 THEN 5 ELSE 10

\* calculateLogAdjustment(currentMultiplier), in tenths
calculateLogAdjustment(m) ==
    IF Abs(m) < 10 THEN 1 ELSE IF Abs(m) < 100 THEN 5 ELSE 10

\* calculateLogAdjustment(currentFrequency) of the frequency variant
calculateLogAdjustmentHz(f) ==
    IF Abs(f) < 10 THEN 1
    ELSE IF Abs(f) < 100 THEN 5
    ELSE IF Abs(f) < 1000 THEN 10
    ELSE IF Abs(f) < 10000 THEN 100
    ELSE IF Abs(f) < 100000 THEN 1000
    ELSE 10000

\* 1.0f in volume ticks: the float's mantissa holds MantBits bits at 1.0.
VolumeOne == Pow2(MantBits - 1)

\* 0.05f, the volume step, as the nearest representable value.
VolumeStep == RoundQ(VolumeOne, 20)

\* 2.0f, the volume ceiling.
VolumeMax == 2 * VolumeOne

\* Contents of the file loaded: bytes counting up from 0, every byte 128,
\* bytes counting down from 255.
FileContents == {"ramp", "midpoint", "descending"}

\* fileData[i] for an index inside the buffer.
ByteAt(i) ==
    IF fileData = "ramp" THEN i % 256
    ELSE IF fileData = "midpoint" THEN 128
    ELSE 255 - (i % 256)

\* unsigned char val = fileData[index]: the byte stored at index; for an
\* index past the end the read is undefined and may yield any byte (the
\* two extremes stand for all of them).
ReadByte(i, fs) == IF i < fs THEN {ByteAt(i)} ELSE {0, 255}

\* Mutant of Synthesize: the byte is not centred on 128.
SynthesizeUncentred(b, vol) == RoundQ(b * vol, 128)

\* float sample = (static_cast<int>(val) - 128) / 128.0f; sample *= audioVolume;
\* in volume ticks.  The division by 128 is exact in a float.
Synthesize(b, vol) == RoundQ((b - 128) * vol, 128)

\* One frame, in ticks.
FrameTicks == ToTicks(FrameBytes)

\* ----------------------------------------------------------- start-up
\* Lengths of the files loaded: one frame; one frame and an odd byte; a file
\* longer than the default loop.  A double holds every real file length exactly.
FileSizes ==
    {n \in {FrameBytes, FrameBytes + 1, 48 * FrameBytes} : Representable(n * TicksPerByte)}

\* Mutant of loadMediaFile: the test for a whole frame is missing.
loadMediaFileAnyLength(file) ==
    /\ file.exists
    /\ file.length > 0
    /\ file.readOk

\* loadMediaFile(file): the file opens, is not empty, holds at least one
\* frame and is read in full.
loadMediaFile(file) ==
    /\ file.exists
    /\ file.length > 0
    /\ file.length \div FrameBytes # 0
    /\ file.readOk

\* The record of a successful load of a file of n bytes.
LoadedFrom(n) ==
    [file |-> [exists |-> TRUE, length |-> n, readOk |-> TRUE], result |-> "ok"]

\* No handleLoop call is in progress.
NoReads ==
    [pending |-> FALSE, branch |-> "none", loopStart |-> 0, loopEnd |-> 0,
     loaded |-> FALSE, position |-> 0]

\* loadMediaFile succeeded on a file of n bytes, then main set the defaults.
Loaded(n) ==
    /\ n \in FileSizes
    /\ n \div FrameBytes > 0
    /\ session = "running"
    /\ lastLoad = LoadedFrom(n)
    /\ fileSize = n
    /\ totalFrames = n \div FrameBytes
    /\ isPaused = FALSE
    /\ audioVolume = VolumeOne
    /\ val = 0
    /\ outLeft = 0
    /\ outRight = 0
    /\ rendered = {}
    /\ pixels = {}
    /\ seen = NoReads
    /\ currentFrame = 0
    /\ audioPosition = 0
    /\ loopStart = 0
    /\ loopEnd = RoundD(DefaultLoopFrames * ToTicks(FrameBytes))
    /\ loopEnabled = TRUE
    /\ boomerangMode = FALSE
    /\ framesLeft = 0
    /\ effectiveAdvance = 0
    /\ index = 0
    /\ posBefore = 0
    /\ rateBefore = 0
    /\ branch = "none"
    /\ prevBranch = "none"
    /\ lastOp = "init"
    /\ keyCount = 0

Init ==
    /\ \E n \in FileSizes : Loaded(n)
    /\ fileData = "ramp"
    /\ isAudioEnabled = TRUE
    /\ jackClient = TRUE
    /\ playbackMultiplier = 10
    /\ playbackFrequency = 0

\* --------------------------------------------------- the audio callback
cbFrame == <<fileSize, fileData, audioVolume, rendered, pixels, seen, currentFrame, jackClient, session,
             lastLoad, totalFrames, isPaused, isAudioEnabled, loopEnabled,
             boomerangMode, loopStart, loopEnd, keyCount>>

\* Mutant of CallbackSilence: the silent block still advances the position.
CallbackSilenceAdvances ==
    /\ jackClient
    /\ framesLeft = 0
    /\ isPaused \/ ~isAudioEnabled \/ fileSize = 0
    /\ outLeft' = 0
    /\ outRight' = 0
    /\ audioPosition' = FAdd(audioPosition, EffectiveAdvance(playbackMultiplier))
    /\ lastOp' = "silence"
    /\ UNCHANGED <<cbFrame, playbackMultiplier, playbackFrequency,
                   framesLeft, effectiveAdvance, index, val, posBefore, rateBefore,
                   branch, prevBranch>>

\* jackProcessCallback entered while paused or muted: a block of silence.
CallbackSilence ==
    /\ jackClient
    /\ framesLeft = 0
    /\ isPaused \/ ~isAudioEnabled \/ fileSize = 0
    /\ outLeft' = 0
    /\ outRight' = 0
    /\ lastOp' = "silence"
    /\ UNCHANGED <<cbFrame, playbackMultiplier, playbackFrequency, audioPosition,
                   framesLeft, effectiveAdvance, index, val, posBefore, rateBefore,
                   branch, prevBranch>>

\* jackProcessCallback entered for n samples: effectiveAdvance is computed once.
CallbackBegin(n) ==
    /\ jackClient
    /\ framesLeft = 0
    /\ ~(isPaused \/ ~isAudioEnabled \/ fileSize = 0)
    /\ effectiveAdvance' = EffectiveAdvance(playbackMultiplier)
    /\ framesLeft' = n
    /\ lastOp' = "begin"
    /\ UNCHANGED <<cbFrame, playbackMultiplier, playbackFrequency, audioPosition,
                   index, val, outLeft, outRight, posBefore, rateBefore, branch,
                   prevBranch>>

\* One iteration of the callback's sample loop.
CallbackSample ==
    /\ framesLeft > 0
    /\ LET stepped == FAdd(audioPosition, effectiveAdvance)
           r == handleLoop(stepped, ToTicks(fileSize), effectiveAdvance)
       IN  /\ audioPosition' = r.pos
           /\ playbackMultiplier' = IF r.flip THEN -playbackMultiplier ELSE playbackMultiplier
           /\ \E i \in CastSizeT(r.pos, fileSize) : index' = ClampIndex(i, fileSize)
           /\ branch' = r.branch
    /\ val' \in ReadByte(index', fileSize)
    /\ outLeft' = Synthesize(val', audioVolume)
    /\ outRight' = Synthesize(val', audioVolume)
    /\ posBefore' = audioPosition
    /\ rateBefore' = playbackMultiplier
    /\ prevBranch' = branch
    /\ framesLeft' = framesLeft - 1
    /\ lastOp' = "sample"
    /\ UNCHANGED <<cbFrame, playbackFrequency, effectiveAdvance>>

\* audioPosition right after the last sample's `audioPosition += effectiveAdvance`.
Stepped == FAdd(posBefore, effectiveAdvance)

\* The file length as the callback sees it: static_cast<double>(fileData.size()).
FileTicks == ToTicks(fileSize)

\* The values a read of audioPosition by the main thread can return: the
\* position between two samples or, while the sample loop runs, the value
\* between `audioPosition += advance` and the end of handleLoop.  Once the
\* callback has stored the stepped value, audioPosition holds it.
PositionReads ==
    LET stepped == IF seen.pending THEN audioPosition
                   ELSE FAdd(audioPosition, effectiveAdvance)
    IN  {audioPosition}
        \cup (IF framesLeft > 0 THEN {stepped} ELSE {})
        \cup (IF framesLeft > 0 /\ loopEnabled /\ loopStart > loopEnd
              THEN {wrapPosition(stepped, FileTicks)} ELSE {})

\* ------------------------------------------------------- key commands
\* A key event is handled: the callback's locals and its output are not
\* touched.  op names the command, rate is the rate it found.
KeyStep(op, rate) ==
    /\ session = "running"
    /\ keyCount < MaxKeys
    /\ keyCount' = keyCount + 1
    /\ lastOp' = op
    /\ branch' = "none"
    /\ prevBranch' = "none"
    /\ posBefore' = 0
    /\ rateBefore' = rate
    /\ UNCHANGED <<fileSize, fileData, totalFrames, framesLeft, effectiveAdvance, index,
                   val, outLeft, outRight, rendered, pixels, seen, currentFrame, jackClient, session,
                   lastLoad>>

\* A key other than the volume keys.
KeyCommon == KeyStep("key", 0) /\ UNCHANGED audioVolume

\* The keypad + step without its ceiling.
IncreaseVolumeUncapped(v) == FAdd(v, VolumeStep)

\* processInput, keypad + held: audioVolume += 0.05f, capped at 2.0f
IncreaseVolume(v) ==
    LET w == FAdd(v, VolumeStep) IN IF w > VolumeMax THEN VolumeMax ELSE w

\* processInput, keypad - held: audioVolume -= 0.05f, floored at 0.0f
DecreaseVolume(v) ==
    LET w == FSub(v, VolumeStep) IN IF w < 0 THEN 0 ELSE w

SetVolume(op, v) ==
    /\ KeyStep(op, 0)
    /\ audioVolume' = v
    /\ UNCHANGED <<isPaused, isAudioEnabled, playbackMultiplier, playbackFrequency,
                   audioPosition, loopEnabled, boomerangMode, loopStart, loopEnd>>

KeyKpAdd == SetVolume("KeyKpAdd", IncreaseVolume(audioVolume))

KeyKpSubtract == SetVolume("KeyKpSubtract", DecreaseVolume(audioVolume))

KeySpace ==
    /\ KeyCommon
    /\ isPaused' = ~isPaused
    /\ UNCHANGED <<isAudioEnabled, playbackMultiplier, playbackFrequency, audioPosition,
                   loopEnabled, boomerangMode, loopStart, loopEnd>>

KeyRight ==
    /\ KeyCommon
    /\ audioPosition' = FAdd(audioPosition, ToTicks(FrameBytes))
    /\ UNCHANGED <<isPaused, isAudioEnabled, playbackMultiplier, playbackFrequency,
                   loopEnabled, boomerangMode, loopStart, loopEnd>>

KeyLeft ==
    /\ KeyCommon
    /\ audioPosition' = FSub(audioPosition, ToTicks(FrameBytes))
    /\ UNCHANGED <<isPaused, isAudioEnabled, playbackMultiplier, playbackFrequency,
                   loopEnabled, boomerangMode, loopStart, loopEnd>>

KeyM ==
    /\ KeyCommon
    /\ isAudioEnabled' = ~isAudioEnabled
    /\ UNCHANGED <<isPaused, playbackMultiplier, playbackFrequency, audioPosition,
                   loopEnabled, boomerangMode, loopStart, loopEnd>>

KeyHome ==
    /\ KeyCommon
    /\ audioPosition' = 0
    /\ UNCHANGED <<isPaused, isAudioEnabled, playbackMultiplier, playbackFrequency,
                   loopEnabled, boomerangMode, loopStart, loopEnd>>

KeyEnd ==
    /\ KeyCommon
    /\ audioPosition' = RoundD(ToTicks(FrameBytes) * (totalFrames - 1))
    /\ UNCHANGED <<isPaused, isAudioEnabled, playbackMultiplier, playbackFrequency,
                   loopEnabled, boomerangMode, loopStart, loopEnd>>

KeyL ==
    /\ KeyCommon
    /\ loopEnabled' = ~loopEnabled
    /\ UNCHANGED <<isPaused, isAudioEnabled, playbackMultiplier, playbackFrequency,
                   audioPosition, boomerangMode, loopStart, loopEnd>>

KeyB ==
    /\ KeyCommon
    /\ boomerangMode' = ~boomerangMode
    /\ UNCHANGED <<isPaused, isAudioEnabled, playbackMultiplier, playbackFrequency,
                   audioPosition, loopEnabled, loopStart, loopEnd>>

\* Mutant of KeyComma: the test of loopEnabled is missing.
KeyCommaUnguarded ==
    /\ KeyStep("KeyComma", 0)
    /\ UNCHANGED audioVolume
    /\ \E p \in PositionReads : loopStart' = p
    /\ UNCHANGED <<isPaused, isAudioEnabled, playbackMultiplier, playbackFrequency,
                   audioPosition, loopEnabled, boomerangMode, loopEnd>>

\* ',': if (!loopEnabled) loopStart = audioPosition; the read is not ordered
\* with the callback's writes.
KeyComma ==
    /\ KeyStep("KeyComma", 0)
    /\ UNCHANGED audioVolume
    /\ \E p \in PositionReads : loopStart' = IF ~loopEnabled THEN p ELSE loopStart
    /\ UNCHANGED <<isPaused, isAudioEnabled, playbackMultiplier, playbackFrequency,
                   audioPosition, loopEnabled, boomerangMode, loopEnd>>

\* '.': if (!loopEnabled) loopEnd = audioPosition;
KeyPeriod ==
    /\ KeyStep("KeyPeriod", 0)
    /\ UNCHANGED audioVolume
    /\ \E p \in PositionReads : loopEnd' = IF ~loopEnabled THEN p ELSE loopEnd
    /\ UNCHANGED <<isPaused, isAudioEnabled, playbackMultiplier, playbackFrequency,
                   audioPosition, loopEnabled, boomerangMode, loopStart>>

\* Keys that set the rate of the multiplier variant.
SetMultiplier(op, m) ==
    /\ KeyStep(op, playbackMultiplier)
    /\ playbackMultiplier' = m
    /\ UNCHANGED <<audioVolume, isPaused, isAudioEnabled, playbackFrequency, audioPosition,
                   loopEnabled, boomerangMode, loopStart, loopEnd>>

Key0 == SetMultiplier("Key0", 10)

KeyMinus == SetMultiplier("KeyMinus", IF -playbackMultiplier = 0 THEN -10 ELSE -playbackMultiplier)

KeyEqual == SetMultiplier("KeyEqual", IF Abs(playbackMultiplier) = 0 THEN 10 ELSE Abs(playbackMultiplier))

\* Mutant of KeyR: plain negation, a rate of 0 stays 0.
KeyRPlain == SetMultiplier("KeyR", -playbackMultiplier)

KeyR == SetMultiplier("KeyR", IF -playbackMultiplier = 0 THEN -10 ELSE -playbackMultiplier)

KeyPageUp == SetMultiplier("KeyPageUp", playbackMultiplier + calculateLogAdjustment(playbackMultiplier))

KeyPageDown == SetMultiplier("KeyPageDown", playbackMultiplier - calculateLogAdjustment(playbackMultiplier))

\* processInput, UP / DOWN held
KeyUp == SetMultiplier("KeyUp", playbackMultiplier + calculateLogAdjustment(playbackMultiplier))

KeyDown == SetMultiplier("KeyDown", playbackMultiplier - calculateLogAdjustment(playbackMultiplier))

KeyBackspace ==
    /\ KeyCommon
    /\ audioPosition' = 0
    /\ playbackMultiplier' = 10
    /\ isPaused' = FALSE
    /\ UNCHANGED <<isAudioEnabled, playbackFrequency, loopEnabled, boomerangMode,
                   loopStart, loopEnd>>

SharedKey ==
    \/ KeySpace \/ KeyRight \/ KeyLeft \/ KeyM \/ KeyHome \/ KeyEnd
    \/ KeyL \/ KeyB \/ KeyComma \/ KeyPeriod \/ KeyKpAdd \/ KeyKpSubtract

Next ==
    \/ CallbackSilence
    \/ \E n \in 1..MaxFrames : CallbackBegin(n)
    \/ CallbackSample
    \/ SharedKey
    \/ Key0 \/ KeyMinus \/ KeyEqual \/ KeyR \/ KeyPageUp \/ KeyPageDown
    \/ KeyUp \/ KeyDown \/ KeyBackspace

Spec == Init /\ [][Next]_vars

\* ------------------------------------------- the frequency variant
\* main of the frequency variant, with the audio server connected.
InitBurn ==
    /\ \E n \in FileSizes : Loaded(n)
    /\ fileData = "ramp"
    /\ isAudioEnabled = TRUE
    /\ jackClient = TRUE
    /\ playbackMultiplier = 0
    /\ playbackFrequency = InitialFrequency

\* jackProcessCallback entered for n samples: bytesPerSample is computed once.
BurnCallbackBegin(n) ==
    /\ jackClient
    /\ framesLeft = 0
    /\ ~(isPaused \/ ~isAudioEnabled \/ fileSize = 0)
    /\ effectiveAdvance' = BytesPerSample(playbackFrequency)
    /\ framesLeft' = n
    /\ lastOp' = "begin"
    /\ UNCHANGED <<cbFrame, playbackMultiplier, playbackFrequency, audioPosition,
                   index, val, outLeft, outRight, posBefore, rateBefore, branch,
                   prevBranch>>

\* One iteration of the sample loop: the index is used as cast, unclamped.
BurnCallbackSample ==
    /\ framesLeft > 0
    /\ LET stepped == FAdd(audioPosition, effectiveAdvance)
           r == handleLoop(stepped, ToTicks(fileSize), effectiveAdvance)
       IN  /\ audioPosition' = r.pos
           /\ playbackFrequency' = IF r.flip THEN -playbackFrequency ELSE playbackFrequency
           /\ index' \in CastSizeT(r.pos, fileSize)
           /\ branch' = r.branch
    /\ val' \in ReadByte(index', fileSize)
    /\ outLeft' = Synthesize(val', audioVolume)
    /\ outRight' = Synthesize(val', audioVolume)
    /\ posBefore' = audioPosition
    /\ rateBefore' = playbackFrequency
    /\ prevBranch' = branch
    /\ framesLeft' = framesLeft - 1
    /\ lastOp' = "sample"
    /\ UNCHANGED <<cbFrame, playbackMultiplier, effectiveAdvance>>

\* Keys that set the rate of the frequency variant.
SetFrequency(op, f) ==
    /\ KeyStep(op, playbackFrequency)
    /\ playbackFrequency' = f
    /\ UNCHANGED <<audioVolume, isPaused, isAudioEnabled, playbackMultiplier, audioPosition,
                   loopEnabled, boomerangMode, loopStart, loopEnd>>

Signed(f, mag) == IF f >= 0 THEN mag ELSE -mag

BurnKey0 == SetFrequency("BurnKey0", 0)

BurnKeyMinus ==
    SetFrequency("BurnKeyMinus", IF -playbackFrequency = 0 THEN -DEFAULT_FREQUENCY ELSE -playbackFrequency)

BurnKeyEqual ==
    SetFrequency("BurnKeyEqual", IF Abs(playbackFrequency) = 0 THEN DEFAULT_FREQUENCY
                 ELSE Abs(playbackFrequency))

BurnKeyR ==
    SetFrequency("BurnKeyR", IF -playbackFrequency = 0 THEN -DEFAULT_FREQUENCY ELSE -playbackFrequency)

PageUpFrequency(f) ==
    IF Abs(f) < 10 THEN Signed(f, 10)
    ELSE IF Abs(f) < 60 THEN Signed(f, 60)
    ELSE IF Abs(f) < 100 THEN Signed(f, 100)
    ELSE IF Abs(f) < 1000 THEN Signed(f, 1000)
    ELSE IF Abs(f) < 10000 THEN Signed(f, 10000)
    ELSE IF Abs(f) < 100000 THEN Signed(f, 100000)
    ELSE Signed(f, MaxFrequency)

PageDownFrequency(f) ==
    IF Abs(f) > 100000 THEN Signed(f, 100000)
    ELSE IF Abs(f) > 10000 THEN Signed(f, 10000)
    ELSE IF Abs(f) > 1000 THEN Signed(f, 1000)
    ELSE IF Abs(f) > 100 THEN Signed(f, 100)
    ELSE IF Abs(f) > 60 THEN Signed(f, 60)
    ELSE IF Abs(f) > 10 THEN Signed(f, 10)
    ELSE Signed(f, 1)

BurnKeyPageUp == SetFrequency("BurnKeyPageUp", PageUpFrequency(playbackFrequency))

BurnKeyPageDown == SetFrequency("BurnKeyPageDown", PageDownFrequency(playbackFrequency))

\* Mutant of IncreaseFrequency: the ceiling is missing.
IncreaseFrequencyUncapped(f) ==
    LET step == calculateLogAdjustmentHz(f)
    IN  IF f >= 0 THEN f + step
        ELSE IF f + step >= 0 THEN 1 ELSE f + step

\* processInput, UP held
IncreaseFrequency(f) ==
    LET step == calculateLogAdjustmentHz(f)
        g == IF f >= 0 THEN f + step
             ELSE IF f + step >= 0 THEN 1 ELSE f + step
    IN  IF g > MaxFrequency THEN MaxFrequency ELSE g

\* processInput, DOWN held
DecreaseFrequency(f) ==
    LET step == calculateLogAdjustmentHz(f)
        g == IF f <= 0 THEN f - step
             ELSE IF f - step <= 0 THEN -1 ELSE f - step
    IN  IF g < -MaxFrequency THEN -MaxFrequency ELSE g

BurnKeyUp == SetFrequency("BurnKeyUp", IncreaseFrequency(playbackFrequency))

BurnKeyDown == SetFrequency("BurnKeyDown", DecreaseFrequency(playbackFrequency))

BurnKeyBackspace ==
    /\ KeyCommon
    /\ audioPosition' = 0
    /\ playbackFrequency' = DEFAULT_FREQUENCY
    /\ isPaused' = FALSE
    /\ UNCHANGED <<isAudioEnabled, playbackMultiplier, loopEnabled, boomerangMode,
                   loopStart, loopEnd>>

NextBurn ==
    \/ CallbackSilence
    \/ \E n \in 1..MaxFrames : BurnCallbackBegin(n)
    \/ BurnCallbackSample
    \/ SharedKey
    \/ BurnKey0 \/ BurnKeyMinus \/ BurnKeyEqual \/ BurnKeyR \/ BurnKeyPageUp
    \/ BurnKeyPageDown \/ BurnKeyUp \/ BurnKeyDown \/ BurnKeyBackspace

SpecBurn == InitBurn /\ [][NextBurn]_vars

\* ------------------------------------- the advance, from any configuration
\* Positions the seek keys reach from Home while paused: whole frames before,
\* inside and past the file.
SeekPositions ==
    {RoundD(k * FrameTicks) : k \in {-1, 0, 1, 2, DefaultLoopFrames}}

\* Loop bounds captured at such positions with the loop off.
LoopBounds ==
    {RoundD(k * FrameTicks) : k \in {0, 1, DefaultLoopFrames}}

\* Multipliers the rate keys reach, in tenths.
Multipliers == {-10, -1, 0, 1, 10}

\* The session after key commands have set the loop bounds, the flags, the
\* rate and the position, with the audio callback about to run.
InitAdv ==
    /\ fileSize \in FileSizes
    /\ fileData = "ramp"
    /\ audioVolume = VolumeOne
    /\ val = 0
    /\ outLeft = 0
    /\ outRight = 0
    /\ rendered = {}
    /\ pixels = {}
    /\ seen = NoReads
    /\ currentFrame = 0
    /\ totalFrames = fileSize \div FrameBytes
    /\ session = "running"
    /\ lastLoad = LoadedFrom(fileSize)
    /\ isPaused = FALSE
    /\ isAudioEnabled = TRUE
    /\ jackClient = TRUE
    /\ playbackMultiplier \in Multipliers
    /\ playbackFrequency = 0
    /\ audioPosition \in SeekPositions
    /\ loopStart \in LoopBounds
    /\ loopEnd \in LoopBounds
    /\ loopEnabled \in BOOLEAN
    /\ boomerangMode \in BOOLEAN
    /\ framesLeft = 0
    /\ effectiveAdvance = 0
    /\ index = 0
    /\ posBefore = 0
    /\ rateBefore = 0
    /\ branch = "none"
    /\ prevBranch = "none"
    /\ lastOp = "init"
    /\ keyCount = 0

\* The audio callback running on its own, block after block.
NextAdv ==
    \/ \E n \in 1..MaxFrames : CallbackBegin(n)
    \/ CallbackSample

SpecAdv == InitAdv /\ [][NextAdv]_vars

\* ------------------------------- handleLoop, one read of a global at a time
\* The statements of handleLoop that follow its classification of the stepped
\* position (branch b), evaluated on the globals as they are when it reaches
\* them: the test of boomerangMode, then the pin or the reflection.
handleLoopAssign(b, pos, fs) ==
    LET w == wrapPosition(pos, fs)
    IN
    IF b = "wrap" THEN [pos |-> w, flip |-> FALSE, branch |-> "wrap"]
    ELSE IF b = "pin" THEN [pos |-> loopStart, flip |-> FALSE, branch |-> "pin"]
    ELSE IF b \in {"reflectEnd", "toStart"}
    THEN IF boomerangMode
         THEN [pos |-> ReflectDown(pos, loopEnd), flip |-> TRUE, branch |-> "reflectEnd"]
         ELSE [pos |-> ForwardExitTarget, flip |-> FALSE, branch |-> "toStart"]
    ELSE IF b \in {"reflectStart", "toEnd"}
    THEN IF boomerangMode
         THEN [pos |-> ReflectUp(pos, loopStart), flip |-> TRUE, branch |-> "reflectStart"]
         ELSE [pos |-> ReverseExitTarget, flip |-> FALSE, branch |-> "toEnd"]
    ELSE IF b \in {"wReflectEnd", "wToStart"}
    THEN IF boomerangMode
         THEN [pos |-> ReflectDown(w, loopEnd), flip |-> TRUE, branch |-> "wReflectEnd"]
         ELSE [pos |-> ForwardExitTarget, flip |-> FALSE, branch |-> "wToStart"]
    ELSE IF b \in {"wReflect", "wToEnd"}
    THEN IF boomerangMode
         THEN [pos |-> IF w < loopEnd THEN ReflectUp(w, loopEnd)
                                      ELSE ReflectDown(w, loopStart),
               flip |-> TRUE, branch |-> "wReflect"]
         ELSE [pos |-> ReverseExitTarget, flip |-> FALSE, branch |-> "wToEnd"]
    ELSE IF b = "wInside" THEN [pos |-> w, flip |-> FALSE, branch |-> "wInside"]
    ELSE [pos |-> pos, flip |-> FALSE, branch |-> "inside"]

\* The loop bounds the statements after the classification read again.
BoundsReadAgain(b) ==
    IF b \in {"pin", "toStart", "reflectStart", "wToStart"} THEN {"loopStart"}
    ELSE IF b \in {"reflectEnd", "toEnd", "wReflectEnd", "wToEnd"} THEN {"loopEnd"}
    ELSE IF b = "wReflect" THEN {"loopStart", "loopEnd"}
    ELSE {}

\* One iteration of the sample loop up to handleLoop's classification:
\* audioPosition += effectiveAdvance, then the reads of loopEnabled, loopStart
\* and loopEnd that choose the branch.
CallbackAdvance ==
    /\ framesLeft > 0
    /\ ~seen.pending
    /\ audioPosition' = FAdd(audioPosition, effectiveAdvance)
    /\ seen' = [pending |-> TRUE,
                branch |-> handleLoop(audioPosition', FileTicks, effectiveAdvance).branch,
                loopStart |-> loopStart, loopEnd |-> loopEnd,
                loaded |-> FALSE, position |-> 0]
    /\ posBefore' = audioPosition
    /\ rateBefore' = playbackMultiplier
    /\ prevBranch' = branch
    /\ lastOp' = "advance"
    /\ UNCHANGED <<fileSize, fileData, audioVolume, rendered, pixels, currentFrame,
                   jackClient, session, lastLoad, totalFrames, isPaused, isAudioEnabled,
                   loopEnabled, boomerangMode, loopStart, loopEnd, keyCount,
                   playbackMultiplier, playbackFrequency, effectiveAdvance, framesLeft,
                   index, val, outLeft, outRight, branch>>

\* The rest of the iteration: handleLoop's pin or reflection, then the byte
\* and the sample.
CallbackResolve ==
    /\ framesLeft > 0
    /\ seen.pending
    /\ LET r == handleLoopAssign(seen.branch, audioPosition, FileTicks)
       IN  /\ audioPosition' = r.pos
           /\ playbackMultiplier' = IF r.flip THEN -playbackMultiplier ELSE playbackMultiplier
           /\ \E i \in CastSizeT(r.pos, fileSize) : index' = ClampIndex(i, fileSize)
           /\ branch' = r.branch
    /\ val' \in ReadByte(index', fileSize)
    /\ outLeft' = Synthesize(val', audioVolume)
    /\ outRight' = Synthesize(val', audioVolume)
    /\ seen' = [seen EXCEPT !.pending = FALSE]
    /\ framesLeft' = framesLeft - 1
    /\ lastOp' = "sample"
    /\ UNCHANGED <<fileSize, fileData, audioVolume, rendered, pixels, currentFrame,
                   jackClient, session, lastLoad, totalFrames, isPaused, isAudioEnabled,
                   loopEnabled, boomerangMode, loopStart, loopEnd, keyCount,
                   playbackFrequency, effectiveAdvance, posBefore, rateBefore, prevBranch>>

\* `audioPosition += effectiveAdvance` is a load, an addition and a store of
\* a plain global.  The load:
CallbackLoad ==
    /\ framesLeft > 0
    /\ ~seen.pending
    /\ ~seen.loaded
    /\ seen' = [seen EXCEPT !.loaded = TRUE, !.position = audioPosition]
    /\ lastOp' = "load"
    /\ UNCHANGED <<fileSize, fileData, audioVolume, rendered, pixels, currentFrame,
                   jackClient, session, lastLoad, totalFrames, isPaused, isAudioEnabled,
                   loopEnabled, boomerangMode, loopStart, loopEnd, keyCount,
                   playbackMultiplier, playbackFrequency, effectiveAdvance, framesLeft,
                   audioPosition, index, val, outLeft, outRight, branch, prevBranch,
                   posBefore, rateBefore>>

\* The store of the sum, then handleLoop and the rest of the iteration.
CallbackStore ==
    /\ framesLeft > 0
    /\ seen.loaded
    /\ LET stepped == FAdd(seen.position, effectiveAdvance)
           r == handleLoop(stepped, ToTicks(fileSize), effectiveAdvance)
       IN  /\ audioPosition' = r.pos
           /\ playbackMultiplier' = IF r.flip THEN -playbackMultiplier ELSE playbackMultiplier
           /\ \E i \in CastSizeT(r.pos, fileSize) : index' = ClampIndex(i, fileSize)
           /\ branch' = r.branch
    /\ val' \in ReadByte(index', fileSize)
    /\ outLeft' = Synthesize(val', audioVolume)
    /\ outRight' = Synthesize(val', audioVolume)
    /\ posBefore' = seen.position
    /\ rateBefore' = playbackMultiplier
    /\ prevBranch' = branch
    /\ seen' = [seen EXCEPT !.loaded = FALSE]
    /\ framesLeft' = framesLeft - 1
    /\ lastOp' = "sample"
    /\ UNCHANGED <<fileSize, fileData, audioVolume, rendered, pixels, currentFrame,
                   jackClient, session, lastLoad, totalFrames, isPaused, isAudioEnabled,
                   loopEnabled, boomerangMode, loopStart, loopEnd, keyCount,
                   playbackFrequency, effectiveAdvance>>

\* The callback and the two seek keys, each arriving at any point of the
\* callback's read-modify-write of audioPosition.
NextSeek ==
    \/ \E n \in 1..MaxFrames : CallbackBegin(n)
    \/ CallbackLoad
    \/ CallbackStore
    \/ KeyRight \/ KeyLeft

SpecSeek == Init /\ [][NextSeek]_vars

\* The session with the loop on, the callback running and the keys that
\* write the loop configuration arriving at any point of handleLoop.
InitRace ==
    /\ InitAdv
    /\ loopEnabled
    /\ fileSize > DefaultLoopFrames * FrameBytes
    /\ playbackMultiplier = 10
    /\ audioPosition = 0
    /\ ~boomerangMode

NextRace ==
    \/ \E n \in 1..MaxFrames : CallbackBegin(n)
    \/ CallbackAdvance
    \/ CallbackResolve
    \/ KeyL \/ KeyB \/ KeyComma \/ KeyPeriod

SpecRace == InitRace /\ [][NextRace]_vars

\* ------------------------------------------------------ the render loop
\* static_cast<size_t>(wrappedPos / bytesPerFrame): the division rounds its
\* quotient to the mantissa, the cast truncates it.
FrameOf(w) == RoundQ(w * Pow2(MantBits), FrameTicks) \div Pow2(MantBits)

\* Mutant of ClampFrame: the index past the last whole frame is kept.
ClampFrameOff(f) == f

\* if (currentFrame >= totalFrames) currentFrame = totalFrames - 1;
ClampFrame(f) == IF f >= totalFrames THEN totalFrames - 1 ELSE f

\* The title-bar update of the main loop.
TitleFrame(pos) == ClampFrame(FrameOf(wrapPosition(pos, FileTicks)))

\* renderFrame of the multiplier variant: tiles frames startFrame,
\* startFrame + 1, ... modulo totalFrames.
TiledFrames(pos, tiles) ==
    LET startFrame == FrameOf(wrapPosition(pos, FileTicks))
    IN  {(startFrame + k) % totalFrames : k \in 0..(tiles - 1)}

\* renderFrame of the frequency variant: the one frame at the position.
BurnFrame(pos) == {ClampFrame(FrameOf(wrapPosition(pos, FileTicks)))}

\* The 18-colour palette of renderFrame without its wrap-around.
colorIndexUnwrapped(value) == value \div 14

\* int colorIndex = (value / 14) % 18;
colorIndex(value) == (value \div 14) % 18

\* The fourteen quotients n / 14.0f, n = 1..14, in float ticks, 1.0f being
\* VolumeOne, each rounded as a float division rounds it.
intensityLevels == [n \in 1..14 |-> RoundQ(n * VolumeOne, 14)]

\* float intensity = ((value % 14) + 1) / 14.0f;
intensity(value) == intensityLevels[(value % 14) + 1]

\* glColor3f(rainbow[colorIndex] * intensity): the colour of one pixel, kept
\* with the byte it was computed from.
glColor(value) ==
    [value |-> value, colorIndex |-> colorIndex(value), intensity |-> intensity(value)]

\* The pixel loop of renderFrame over the frames it draws:
\* value = fileData[frameOffset + y * FRAME_WIDTH + x].
Pixels(frames) ==
    {glColor(ByteAt(f * FrameBytes + k)) : f \in frames, k \in 0..(FrameBytes - 1)}

renderFrameVars == <<seen, jackClient, session, lastLoad, fileSize, fileData, audioVolume, val, outLeft, outRight, totalFrames,
                     isPaused, isAudioEnabled, playbackMultiplier, playbackFrequency,
                     audioPosition, loopEnabled, boomerangMode, loopStart, loopEnd,
                     framesLeft, effectiveAdvance, index, posBefore, rateBefore,
                     branch, prevBranch, keyCount>>

\* Mutant of RenderTick: the pass stores the wrapped position back.
RenderTickStoresWrapped ==
    /\ session = "running"
    /\ \E p \in PositionReads : currentFrame' = TitleFrame(p)
    /\ \E p \in PositionReads, tiles \in 0..MaxTiles : rendered' = TiledFrames(p, tiles)
    /\ pixels' = Pixels(rendered')
    /\ audioPosition' = wrapPosition(audioPosition, FileTicks)
    /\ lastOp' = "render"
    /\ UNCHANGED <<seen, jackClient, session, lastLoad, fileSize, fileData, audioVolume,
                   val, outLeft, outRight, totalFrames, isPaused, isAudioEnabled,
                   playbackMultiplier, playbackFrequency, loopEnabled, boomerangMode,
                   loopStart, loopEnd, framesLeft, effectiveAdvance, index, posBefore,
                   rateBefore, branch, prevBranch, keyCount>>

\* One pass of the main loop of the multiplier variant: title bar, renderFrame.
RenderTick ==
    /\ session = "running"
    /\ \E p \in PositionReads : currentFrame' = TitleFrame(p)
    /\ \E p \in PositionReads, tiles \in 0..MaxTiles : rendered' = TiledFrames(p, tiles)
    /\ pixels' = Pixels(rendered')
    /\ lastOp' = "render"
    /\ UNCHANGED renderFrameVars

\* One pass of the main loop of the frequency variant.
BurnRenderTick ==
    /\ session = "running"
    /\ \E p \in PositionReads : currentFrame' = TitleFrame(p)
    /\ \E p \in PositionReads : rendered' = BurnFrame(p)
    /\ pixels' = Pixels(rendered')
    /\ lastOp' = "render"
    /\ UNCHANGED renderFrameVars

\* Lengths of the files rendered: one frame and two frames, each with a
\* partial frame after the last whole one.
RenderFileSizes ==
    {n \in {FrameBytes + 1, 2 * FrameBytes + 4} : Representable(n * TicksPerByte)}

\* Positions the render loop can find: whole frames before, inside and past
\* the file, the last tick of the file, the end of the file.
RenderPositions ==
    SeekPositions \cup {FSub(ToTicks(n), 1) : n \in RenderFileSizes}
                  \cup {ToTicks(n) : n \in RenderFileSizes}

\* The session after key commands have set the position, the rate and the
\* loop, with the audio callback and the main loop about to run.
InitRender ==
    /\ fileSize \in RenderFileSizes
    /\ fileData = "ramp"
    /\ audioVolume = VolumeOne
    /\ val = 0
    /\ outLeft = 0
    /\ outRight = 0
    /\ rendered = {}
    /\ pixels = {}
    /\ seen = NoReads
    /\ currentFrame = 0
    /\ totalFrames = fileSize \div FrameBytes
    /\ session = "running"
    /\ lastLoad = LoadedFrom(fileSize)
    /\ isPaused = FALSE
    /\ isAudioEnabled = TRUE
    /\ jackClient = TRUE
    /\ playbackMultiplier \in {-10, 10}
    /\ playbackFrequency = 0
    /\ audioPosition \in RenderPositions
    /\ \/ loopStart = 0 /\ loopEnd = RoundD(DefaultLoopFrames * FrameTicks)
       \/ loopStart = FrameTicks /\ loopEnd = 0
    /\ loopEnabled \in BOOLEAN
    /\ boomerangMode = FALSE
    /\ framesLeft = 0
    /\ effectiveAdvance = 0
    /\ index = 0
    /\ posBefore = 0
    /\ rateBefore = 0
    /\ branch = "none"
    /\ prevBranch = "none"
    /\ lastOp = "init"
    /\ keyCount = 0

NextRender ==
    \/ \E n \in 1..MaxFrames : CallbackBegin(n)
    \/ CallbackSample
    \/ RenderTick
    \/ BurnRenderTick

SpecRender == InitRender /\ [][NextRender]_vars

\* ------------------------------------- start-up with or without the server
\* main of the multiplier variant with a short file: initJackAudio connects
\* to the server, or fails and main goes on with a warning (isAudioEnabled
\* is left true).
InitJack ==
    /\ \E n \in FileSizes : n < 2 * FrameBytes /\ Loaded(n)
    /\ fileData = "ramp"
    /\ isAudioEnabled = TRUE
    /\ jackClient \in BOOLEAN
    /\ playbackMultiplier = 10
    /\ playbackFrequency = 0

\* jackShutdownCallback: the server went away.
JackShutdown ==
    /\ jackClient
    /\ jackClient' = FALSE
    /\ isAudioEnabled' = FALSE
    /\ lastOp' = "shutdown"
    /\ UNCHANGED <<session, lastLoad, fileSize, fileData, audioVolume, val, outLeft,
                   outRight, rendered, pixels, seen, currentFrame, totalFrames, isPaused, playbackMultiplier,
                   playbackFrequency, audioPosition, loopEnabled, boomerangMode, loopStart,
                   loopEnd, framesLeft, effectiveAdvance, index, posBefore, rateBefore,
                   branch, prevBranch, keyCount>>

\* The audio thread, while the client is active.
AudioThread ==
    \/ CallbackSilence
    \/ \E n \in 1..MaxFrames : CallbackBegin(n)
    \/ CallbackSample

NextJack ==
    \/ AudioThread
    \/ JackShutdown
    \/ RenderTick
    \/ KeySpace

\* The main loop runs until the window closes and the server calls the
\* process callback of an active client period after period.
SpecJack ==
    InitJack /\ [][NextJack]_vars /\ WF_vars(RenderTick) /\ WF_vars(AudioThread)

\* --------------------------------------------- the keys of the loop bounds
\* Playback of a one-frame file with the keys that toggle the loop and
\* capture its bounds.
InitBounds == Init /\ fileSize = FrameBytes

NextBounds ==
    \/ \E n \in 1..MaxFrames : CallbackBegin(n)
    \/ CallbackSample
    \/ KeyL \/ KeyComma \/ KeyPeriod

SpecBounds == InitBounds /\ [][NextBounds]_vars

\* ------------------------------------------------ frame-stepping variants
\* bigMode.cpp and binaryWaterfall.cpp: no audio, one thread.  The main loop
\* draws currentFrame, polls the keys, then lets the frame timer advance.
frameStepVars == <<fileSize, fileData, totalFrames, audioVolume, val, outLeft, outRight, seen,
                   jackClient, session, lastLoad, isAudioEnabled, playbackMultiplier,
                   playbackFrequency, audioPosition, loopEnabled, boomerangMode,
                   loopStart, loopEnd, framesLeft, effectiveAdvance, index,
                   posBefore, rateBefore, branch, prevBranch>>

\* Mutant of LastFrame: End selects the frame one past the last.
LastFramePastEnd == totalFrames

\* keyCallback, Right and the frame timer: (currentFrame + 1) % totalFrames
NextFrame(f) == (f + 1) % totalFrames

\* keyCallback, Left: (currentFrame > 0) ? currentFrame - 1 : totalFrames - 1
PreviousFrame(f) == IF f > 0 THEN f - 1 ELSE totalFrames - 1

\* keyCallback, End: totalFrames - 1
LastFrame == totalFrames - 1

\* renderFrame: frameOffset = currentFrame * FRAME_WIDTH * FRAME_HEIGHT; a frame
\* that would end beyond the buffer resets currentFrame (and the offset) to 0.
FrameToDraw(f) == IF f * FrameBytes + FrameBytes > fileSize THEN 0 ELSE f

\* glfwPollEvents runs between renderFrame and the timer test of one pass
KeysPolled == lastOp \in {"renderFrame", "space", "right", "left", "home", "end", "reset"}

FrameKey(op, frame, paused) ==
    /\ session = "running"
    /\ KeysPolled
    /\ keyCount < MaxKeys
    /\ keyCount' = keyCount + 1
    /\ currentFrame' = frame
    /\ isPaused' = paused
    /\ lastOp' = op
    /\ UNCHANGED <<rendered, pixels>>
    /\ UNCHANGED frameStepVars

FrameKeySpace == FrameKey("space", currentFrame, ~isPaused)

FrameKeyRight == FrameKey("right", NextFrame(currentFrame), isPaused)

FrameKeyLeft == FrameKey("left", PreviousFrame(currentFrame), isPaused)

FrameKeyHome == FrameKey("home", 0, isPaused)

FrameKeyEnd == FrameKey("end", LastFrame, isPaused)

\* R: currentFrame = 0; playbackSpeed = 1.0f; isPaused = false
FrameKeyR == FrameKey("reset", 0, FALSE)

\* main loop, top of a pass: renderFrame(window)
FrameRender ==
    /\ session = "running"
    /\ lastOp \in {"init", "timer"}
    /\ currentFrame' = FrameToDraw(currentFrame)
    /\ rendered' = {currentFrame'}
    /\ pixels' = Pixels(rendered')
    /\ lastOp' = "renderFrame"
    /\ keyCount' = 0
    /\ UNCHANGED isPaused
    /\ UNCHANGED frameStepVars

\* main loop, end of a pass: if not paused and deltaTime >= frameTime, the
\* next frame; the elapsed time is an input of the pass.
FrameTimer ==
    /\ session = "running"
    /\ KeysPolled
    /\ \E elapsed \in BOOLEAN :
          currentFrame' = IF ~isPaused /\ elapsed THEN NextFrame(currentFrame)
                          ELSE currentFrame
    /\ lastOp' = "timer"
    /\ UNCHANGED <<rendered, pixels, isPaused, keyCount>>
    /\ UNCHANGED frameStepVars

\* main: loadMediaFile succeeded (currentFrame = 0) and the loop is entered
InitFrames ==
    /\ \E n \in FileSizes : Loaded(n)
    /\ fileData \in FileContents
    /\ isAudioEnabled = FALSE
    /\ jackClient = FALSE
    /\ playbackMultiplier = 0
    /\ playbackFrequency = 0

NextFrames ==
    \/ FrameRender
    \/ FrameKeySpace \/ FrameKeyRight \/ FrameKeyLeft
    \/ FrameKeyHome \/ FrameKeyEnd \/ FrameKeyR
    \/ FrameTimer

SpecFrames == InitFrames /\ [][NextFrames]_vars

\* ------------------------------------------- playback inside a plain loop
\* The session playing forwards at 1.0 from the start of a non-wrapped loop,
\* boomerang off; Space and M pause and mute it.
InitLoop ==
    /\ InitAdv
    /\ loopEnabled /\ ~boomerangMode
    /\ loopStart < loopEnd
    /\ playbackMultiplier = 10
    /\ audioPosition = loopStart

NextLoop ==
    \/ AudioThread
    \/ KeySpace \/ KeyM

\* The server calls the process callback of the active client period after
\* period.
SpecLoop == InitLoop /\ [][NextLoop]_vars /\ WF_vars(AudioThread)

\* --------------------------------------------------- main, from the start
\* Files the dialog can hand to loadMediaFile: missing or present, empty,
\* one byte short of a frame, one frame, one frame and a byte, readable or not.
Files ==
    [exists : BOOLEAN,
     length : {0, FrameBytes - 1, FrameBytes, FrameBytes + 1},
     readOk : BOOLEAN]

\* The process before main runs: the globals hold their initialisers.
InitStart ==
    /\ session = "dialog"
    /\ lastLoad = [file |-> [exists |-> FALSE, length |-> 0, readOk |-> FALSE],
                   result |-> "none"]
    /\ fileSize = 0
    /\ fileData = "ramp"
    /\ totalFrames = 0
    /\ isPaused = FALSE
    /\ isAudioEnabled = TRUE
    /\ jackClient = FALSE
    /\ audioVolume = VolumeOne
    /\ playbackMultiplier = 10
    /\ playbackFrequency = 0
    /\ audioPosition = 0
    /\ loopEnabled = TRUE
    /\ boomerangMode = FALSE
    /\ loopStart = 0
    /\ loopEnd = 0
    /\ val = 0
    /\ outLeft = 0
    /\ outRight = 0
    /\ rendered = {}
    /\ pixels = {}
    /\ seen = NoReads
    /\ currentFrame = 0
    /\ framesLeft = 0
    /\ effectiveAdvance = 0
    /\ index = 0
    /\ posBefore = 0
    /\ rateBefore = 0
    /\ branch = "none"
    /\ prevBranch = "none"
    /\ lastOp = "init"
    /\ keyCount = 0

\* main up to its render loop: the dialog is cancelled and main returns; or
\* loadMediaFile fails and main returns; or it succeeds, main sets the
\* default loop and initJackAudio connects to the server or fails.
MainStart ==
    /\ session = "dialog"
    /\ lastOp' = "start"
    /\ UNCHANGED <<isPaused, isAudioEnabled, audioVolume, playbackMultiplier,
                   playbackFrequency, val, outLeft, outRight, rendered, pixels, seen, currentFrame,
                   framesLeft, effectiveAdvance, index, posBefore, rateBefore, branch,
                   prevBranch, keyCount>>
    /\ \/ /\ session' = "exited"
          /\ UNCHANGED <<lastLoad, fileData, fileSize, totalFrames, jackClient, audioPosition,
                         loopEnabled, boomerangMode, loopStart, loopEnd>>
       \/ \E file \in Files :
            /\ lastLoad' = [file |-> file, result |-> IF loadMediaFile(file) THEN "ok" ELSE "failed"]
            /\ IF loadMediaFile(file)
               THEN /\ fileSize' = file.length
                    /\ fileData' \in FileContents
                    /\ totalFrames' = file.length \div FrameBytes
                    /\ loopStart' = 0
                    /\ loopEnd' = RoundD(DefaultLoopFrames * ToTicks(FrameBytes))
                    /\ audioPosition' = 0
                    /\ loopEnabled' = TRUE
                    /\ boomerangMode' = FALSE
                    /\ jackClient' \in BOOLEAN
                    /\ session' = "running"
               ELSE /\ totalFrames' = IF file.exists /\ file.length > 0
                                      THEN file.length \div FrameBytes ELSE totalFrames
                    /\ fileSize' = IF file.exists /\ file.length \div FrameBytes # 0
                                   THEN file.length ELSE fileSize
                    /\ session' = "exited"
                    /\ UNCHANGED <<fileData, jackClient, audioPosition, loopEnabled, boomerangMode,
                                   loopStart, loopEnd>>

NextStart ==
    \/ MainStart
    \/ AudioThread
    \/ RenderTick
    \/ KeySpace

SpecStart == InitStart /\ [][NextStart]_vars

\* ------------------------------------------- the rate keys, from any rate
\* Multipliers, in tenths, on both sides of every threshold of the step ladder.
RateTenths == {-100, -10, -5, -1, 0, 1, 9, 10, 95, 100}

\* Frequencies, in Hz, on both sides of every threshold of the step ladder,
\* up to the ceiling.
RateHz ==
    LET up == {1, 9, 10, 95, 100, 990, 1000, 9900, 10000, 99000, 100000, MaxFrequency}
    IN  {0} \cup up \cup {-f : f \in up}

\* A session of the multiplier variant whose rate keys have brought the
\* multiplier to any value, or one of the frequency variant whose rate keys
\* have brought the frequency to any value.
InitRate ==
    /\ \E n \in FileSizes : Loaded(n)
    /\ fileSize = FrameBytes
    /\ fileData = "ramp"
    /\ isAudioEnabled = TRUE
    /\ jackClient = TRUE
    /\ \/ playbackMultiplier \in RateTenths /\ playbackFrequency = 0
       \/ playbackMultiplier = 0 /\ playbackFrequency \in RateHz

\* The rate keys of the two variants, each acting on its own rate.
NextRate ==
    \/ Key0 \/ KeyMinus \/ KeyEqual \/ KeyR \/ KeyPageUp \/ KeyPageDown
    \/ KeyUp \/ KeyDown
    \/ BurnKey0 \/ BurnKeyMinus \/ BurnKeyEqual \/ BurnKeyR \/ BurnKeyPageUp
    \/ BurnKeyPageDown \/ BurnKeyUp \/ BurnKeyDown

SpecRate == InitRate /\ [][NextRate]_vars

\* ------------------------------------- the output, from any configuration
\* Volumes the keypad keys reach: silent, one step below 1.0, 1.0, the ceiling.
Volumes == {0, FSub(VolumeOne, VolumeStep), VolumeOne, VolumeMax}

\* The session with a short file of any contents loaded, after key commands have
\* set the volume, the rate, the loop flag and the position.
InitOut ==
    /\ fileSize \in {n \in FileSizes : n < 2 * FrameBytes}
    /\ fileData \in FileContents
    /\ audioVolume \in Volumes
    /\ val = 0
    /\ outLeft = 0
    /\ outRight = 0
    /\ rendered = {}
    /\ pixels = {}
    /\ seen = NoReads
    /\ currentFrame = 0
    /\ totalFrames = fileSize \div FrameBytes
    /\ session = "running"
    /\ lastLoad = LoadedFrom(fileSize)
    /\ isPaused = FALSE
    /\ isAudioEnabled = TRUE
    /\ jackClient = TRUE
    /\ playbackMultiplier \in {0, 10}
    /\ playbackFrequency = 0
    /\ audioPosition \in {0, FrameTicks}
    /\ loopStart = 0
    /\ loopEnd = RoundD(DefaultLoopFrames * FrameTicks)
    /\ loopEnabled \in BOOLEAN
    /\ boomerangMode = FALSE
    /\ framesLeft = 0
    /\ effectiveAdvance = 0
    /\ index = 0
    /\ posBefore = 0
    /\ rateBefore = 0
    /\ branch = "none"
    /\ prevBranch = "none"
    /\ lastOp = "init"
    /\ keyCount = 0

\* The audio callback, with the keys that decide what it emits.
NextOut ==
    \/ CallbackSilence
    \/ \E n \in 1..MaxFrames : CallbackBegin(n)
    \/ CallbackSample
    \/ KeySpace \/ KeyM \/ KeyKpAdd \/ KeyKpSubtract

SpecOut == InitOut /\ [][NextOut]_vars

\* ================================================================ claims
\* A sample has just been emitted: the ghost variables describe its advance.
AfterSample == lastOp = "sample"

\* C1: after every advance, the byte index the audio callback reads the
\* buffer at lies in [0, N-1].
C1_IndexInBuffer ==
    AfterSample => (0 <= index /\ index <= fileSize - 1)

\* C2: after every advance+resolve step, in every loop configuration,
\* 0 <= position < N.
C2_PositionInFile ==
    AfterSample => (0 <= audioPosition /\ audioPosition < FileTicks)

\* C3: with the loop disabled, after every advance step 0 <= position < N.
C3_WrappedPositionInFile ==
    (AfterSample /\ ~loopEnabled) => (0 <= audioPosition /\ audioPosition < FileTicks)

\* C4: in every state after a successful load, 0 <= loopStart < N and
\* 0 <= loopEnd < N.
C4_LoopBoundsInFile ==
    /\ 0 <= loopStart /\ loopStart < FileTicks
    /\ 0 <= loopEnd /\ loopEnd < FileTicks

\* C5: boomerang on, non-wrapped loop: the advance right after one that
\* reflected at loopEnd decreases position, and position stays within
\* [loopStart, loopEnd).
C5_ReverseAfterReflect ==
    (AfterSample /\ prevBranch = "reflectEnd" /\ loopEnabled /\ boomerangMode
                 /\ loopStart < loopEnd)
        => /\ audioPosition < posBefore
           /\ loopStart <= audioPosition /\ audioPosition < loopEnd

\* C6: loop enabled, boomerang on, loopStart < loopEnd: a forward advance
\* that leaves position > loopEnd sets position to loopEnd - (position -
\* loopEnd) and negates the rate; a reverse advance that leaves position <
\* loopStart sets position to loopStart + (loopStart - position) and negates
\* the rate; an advance that crosses neither bound leaves the rate unchanged.
C6_BoomerangReflect ==
    (AfterSample /\ loopEnabled /\ boomerangMode /\ loopStart < loopEnd) =>
        LET up   == effectiveAdvance > 0 /\ Stepped > loopEnd
            down == effectiveAdvance < 0 /\ Stepped < loopStart
        IN  /\ up => /\ audioPosition = FSub(loopEnd, FSub(Stepped, loopEnd))
                     /\ playbackMultiplier = -rateBefore
            /\ down => /\ audioPosition = FAdd(loopStart, FSub(loopStart, Stepped))
                       /\ playbackMultiplier = -rateBefore
            /\ (~up /\ ~down) => playbackMultiplier = rateBefore

\* C6 witness: a reflection at loopStart right after a reflection at loopEnd.
C6_Witness ==
    /\ AfterSample /\ loopEnabled /\ boomerangMode /\ loopStart < loopEnd
    /\ prevBranch = "reflectEnd"
    /\ effectiveAdvance < 0 /\ Stepped < loopStart
    /\ audioPosition = FAdd(loopStart, FSub(loopStart, Stepped))
    /\ rateBefore < 0 /\ playbackMultiplier > 0

\* C7: loop enabled, boomerang on, loopStart < loopEnd: the position after a
\* reflecting advance satisfies loopStart <= position <= loopEnd.
C7_ReflectionInsideLoop ==
    (AfterSample /\ loopEnabled /\ boomerangMode /\ loopStart < loopEnd
                 /\ \/ effectiveAdvance > 0 /\ Stepped > loopEnd
                    \/ effectiveAdvance <= 0 /\ Stepped < loopStart)
        => (loopStart <= audioPosition /\ audioPosition <= loopEnd)

\* C8: loop enabled, boomerang off, loopStart < loopEnd: a forward advance
\* that leaves position > loopEnd sets position to loopStart, a reverse advance
\* that leaves position < loopStart sets it to loopEnd; the rate is unchanged.
C8_PinToOppositeBound ==
    (AfterSample /\ loopEnabled /\ ~boomerangMode /\ loopStart < loopEnd) =>
        /\ (effectiveAdvance > 0 /\ Stepped > loopEnd)
              => (audioPosition = loopStart /\ playbackMultiplier = rateBefore)
        /\ (effectiveAdvance < 0 /\ Stepped < loopStart)
              => (audioPosition = loopEnd /\ playbackMultiplier = rateBefore)

\* C8 witness: a reverse advance left the loop below loopStart and playback
\* resumed at loopEnd.
C8_Witness ==
    /\ AfterSample /\ loopEnabled /\ ~boomerangMode /\ loopStart < loopEnd
    /\ effectiveAdvance < 0 /\ Stepped < loopStart
    /\ audioPosition = loopEnd /\ playbackMultiplier = rateBefore

\* C9: loop enabled and loopStart = loopEnd: every advance, from any
\* position, with any rate and either boomerang setting, leaves position =
\* loopStart and the rate unchanged.
C9_DegeneratePin ==
    (AfterSample /\ loopEnabled /\ loopStart = loopEnd)
        => (audioPosition = loopStart /\ playbackMultiplier = rateBefore)

\* C9 witness: boomerang on, an advance from outside a one-point loop that
\* did not land on it, pinned to it.
C9_Witness ==
    /\ AfterSample /\ loopEnabled /\ boomerangMode /\ loopStart = loopEnd
    /\ posBefore # loopStart /\ Stepped # loopStart /\ effectiveAdvance # 0
    /\ audioPosition = loopStart

\* C10: wrapped loop (loopStart > loopEnd), reverse rate: a stepped-and-wrapped
\* position inside the active region [loopStart, N) U [0, loopEnd] is left as
\* stepped and the rate is not negated.
C10_ActiveRegionUntouched ==
    LET w == wrapPosition(Stepped, FileTicks)
    IN  (AfterSample /\ loopEnabled /\ loopStart > loopEnd /\ effectiveAdvance < 0
                     /\ (w >= loopStart \/ w <= loopEnd))
            => (audioPosition = w /\ playbackMultiplier = rateBefore)

\* A sample has just been written to the output buffers, by the sample loop
\* or by the silence loop.
Emitted == lastOp \in {"sample", "silence"}

\* C11: every sample emitted while paused or muted is 0 on both channels,
\* also when pause or mute is toggled while a block is being generated.
C11_SilentWhilePausedOrMuted ==
    (Emitted /\ (isPaused \/ ~isAudioEnabled)) => (outLeft = 0 /\ outRight = 0)

\* C12: not paused and not muted: the sample emitted for the byte b read at
\* volume v is ((b - 128) / 128) * v on the left and on the right channel;
\* b = 128 gives 0, b = 0 gives -v, b = 255 gives (127/128) * v.
C12_SampleFromByte ==
    (AfterSample /\ ~isPaused /\ isAudioEnabled) =>
        /\ val = ByteAt(index)
        /\ outLeft = RoundQ((val - 128) * audioVolume, 128)
        /\ outRight = outLeft
        /\ (val = 128) => (outLeft = 0)
        /\ (val = 0) => (outLeft = -audioVolume)
        /\ (val = 255) => (outLeft = RoundQ(127 * audioVolume, 128))

\* C12 witness: the byte 255 emitted at a volume other than 0 and 1.0.
C12_Witness ==
    /\ AfterSample /\ ~isPaused /\ isAudioEnabled
    /\ val = 255 /\ audioVolume > 0 /\ audioVolume # VolumeOne
    /\ outLeft > 0 /\ outLeft = RoundQ(127 * audioVolume, 128) /\ outRight = outLeft

\* A pass of the main loop has just run: rendered and currentFrame are its.
AfterRender == lastOp = "render"

\* C13: for every position the main loop can read, negative and >= N ones
\* included, each frame index computed is < totalFrames and the bytes of the
\* frame, [idx * frameBytes, idx * frameBytes + frameBytes), lie inside [0, N).
C13_FrameInsideFile ==
    AfterRender =>
        /\ 0 <= currentFrame /\ currentFrame < totalFrames
        /\ \A f \in rendered :
              /\ 0 <= f /\ f < totalFrames
              /\ f * FrameBytes + FrameBytes <= fileSize

\* C13 witness: the main loop drew a frame while the position it read, the
\* one between two samples or the one in progress, was outside [0, N).
C13_Witness ==
    /\ AfterRender /\ rendered # {}
    /\ \A p \in PositionReads : p < 0 \/ p >= FileTicks

\* C14: wrapPosition(x, N) is a value of [0, N), the identity on [0, N) and
\* idempotent; checked on every x the callback hands to it (loop disabled,
\* or wrapped loop).  (Congruence to x is up to the rounding of `pos +=
\* fileSize` and is not part of the formula.)
C14_WrapIntoFile ==
    (AfterSample /\ (~loopEnabled \/ loopStart > loopEnd)) =>
        LET w == wrapPosition(Stepped, FileTicks)
        IN  /\ 0 <= w /\ w < FileTicks
            /\ (0 <= Stepped /\ Stepped < FileTicks) => (w = Stepped)
            /\ wrapPosition(w, FileTicks) = w

\* C15: '=' leaves the rate > 0 and '-' leaves it < 0, from every prior
\* rate: the magnitude is kept when nonzero and is the baseline unit (1.0, or
\* DEFAULT_FREQUENCY) when the prior rate was 0.
C15_ForceSign ==
    /\ (lastOp = "KeyEqual") =>
          (playbackMultiplier > 0
             /\ playbackMultiplier = IF rateBefore = 0 THEN 10 ELSE Abs(rateBefore))
    /\ (lastOp = "KeyMinus") =>
          (playbackMultiplier < 0
             /\ playbackMultiplier = IF rateBefore = 0 THEN -10 ELSE -Abs(rateBefore))
    /\ (lastOp = "BurnKeyEqual") =>
          (playbackFrequency > 0
             /\ playbackFrequency = IF rateBefore = 0 THEN DEFAULT_FREQUENCY
                                    ELSE Abs(rateBefore))
    /\ (lastOp = "BurnKeyMinus") =>
          (playbackFrequency < 0
             /\ playbackFrequency = IF rateBefore = 0 THEN -DEFAULT_FREQUENCY
                                    ELSE -Abs(rateBefore))

\* C16: R negates the rate and never leaves it at 0: from rate 0 it gives
\* -baseline, and a second R right after one applied to a nonzero rate
\* restores that rate.
C16_ReverseDirection ==
    [][ /\ (lastOp' = "KeyR") =>
              /\ playbackMultiplier' # 0
              /\ playbackMultiplier' = IF playbackMultiplier = 0 THEN -10
                                       ELSE -playbackMultiplier
              /\ (lastOp = "KeyR" /\ rateBefore # 0) => (playbackMultiplier' = rateBefore)
        /\ (lastOp' = "BurnKeyR") =>
              /\ playbackFrequency' # 0
              /\ playbackFrequency' = IF playbackFrequency = 0 THEN -DEFAULT_FREQUENCY
                                      ELSE -playbackFrequency
              /\ (lastOp = "BurnKeyR" /\ rateBefore # 0) => (playbackFrequency' = rateBefore)
      ]_vars

\* C16 witness: R pressed at rate 0 in the frequency variant.
C16_Witness ==
    lastOp = "BurnKeyR" /\ rateBefore = 0 /\ playbackFrequency = -DEFAULT_FREQUENCY

\* C17: the 0 key sets the rate to +baseline from every prior rate, in the
\* multiplier variant (1.0) and in the frequency variant (DEFAULT_FREQUENCY).
C17_ResetDefault ==
    /\ (lastOp = "Key0") => (playbackMultiplier = 10)
    /\ (lastOp = "BurnKey0") => (playbackFrequency = DEFAULT_FREQUENCY)

\* C18: Up sets the rate to rate + step(|rate|) and Down to rate - step(|rate|),
\* the magnitude then capped at MaxFrequency in the frequency variant and
\* uncapped in the multiplier variant, from every prior rate, those whose
\* step lands on zero included.
C18_StepRate ==
    LET cap(f) == IF f > MaxFrequency THEN MaxFrequency
                  ELSE IF f < -MaxFrequency THEN -MaxFrequency ELSE f
    IN  /\ (lastOp \in {"KeyUp", "KeyPageUp"}) =>
              (playbackMultiplier = rateBefore + calculateLogAdjustment(Abs(rateBefore)))
        /\ (lastOp \in {"KeyDown", "KeyPageDown"}) =>
              (playbackMultiplier = rateBefore - calculateLogAdjustment(Abs(rateBefore)))
        /\ (lastOp = "BurnKeyUp") =>
              (playbackFrequency = cap(rateBefore + calculateLogAdjustmentHz(Abs(rateBefore))))
        /\ (lastOp = "BurnKeyDown") =>
              (playbackFrequency = cap(rateBefore - calculateLogAdjustmentHz(Abs(rateBefore))))

\* C19: the step follows the ladder for every magnitude: multiplier below 1.0
\* -> 0.1, below 10.0 -> 0.5, else 1.0; frequency below 10 -> 1, below 100 -> 5,
\* below 1000 -> 10, below 10000 -> 100, below 100000 -> 1000, else 10000;
\* and it is the same for a rate and its negation.
C19_StepLadder ==
    LET m == Abs(playbackMultiplier)
        f == Abs(playbackFrequency)
    IN  /\ calculateLogAdjustment(playbackMultiplier)
              = (IF m <= 9 THEN 1 ELSE IF m <= 99 THEN 5 ELSE 10)
        /\ calculateLogAdjustment(-playbackMultiplier)
              = calculateLogAdjustment(playbackMultiplier)
        /\ calculateLogAdjustmentHz(playbackFrequency)
              = (IF f <= 9 THEN 1
                 ELSE IF f <= 99 THEN 5
                 ELSE IF f <= 999 THEN 10
                 ELSE IF f <= 9999 THEN 100
                 ELSE IF f <= 99999 THEN 1000
                 ELSE 10000)
        /\ calculateLogAdjustmentHz(-playbackFrequency)
              = calculateLogAdjustmentHz(playbackFrequency)
        /\ (lastOp = "KeyUp") =>
              (playbackMultiplier - rateBefore
                  = (IF Abs(rateBefore) <= 9 THEN 1 ELSE IF Abs(rateBefore) <= 99 THEN 5 ELSE 10))

\* C19 witness: Up pressed at -9.5, just inside the middle rung of the
\* multiplier ladder, moved the rate by 0.5.
C19_Witness ==
    lastOp = "KeyUp" /\ rateBefore = -95 /\ playbackMultiplier = -90

\* C20: after initJackAudio has failed the session is in its render loop
\* and, while not paused, the playback position keeps advancing: an advance
\* step follows, or the session is paused first.
C20_VideoOnlyAdvances ==
    (~jackClient /\ lastOp = "init" /\ ~isPaused) ~> (isPaused \/ lastOp = "sample")

\* C21: loop enabled and loopStart or loopEnd outside [0, N): every advance
\* sets position to loopStart and leaves the rate unchanged, as for
\* loopStart = loopEnd.
C21_OutOfRangeBoundPins ==
    (AfterSample /\ loopEnabled
                 /\ (loopStart < 0 \/ loopStart >= FileTicks
                       \/ loopEnd < 0 \/ loopEnd >= FileTicks))
        => (audioPosition = loopStart /\ playbackMultiplier = rateBefore)

\* main has just returned or reached its render loop.
AfterStart == lastOp = "start"

\* C22: loadMediaFile succeeds only on a file that opens and whose length N
\* is at least one frame (so N > 0); on success totalFrames = N div
\* frameBytes >= 1 and the buffer holds exactly N bytes; a missing file, an
\* empty file and a file shorter than one frame make it return failure.
C22_LoadOutcome ==
    LET f == lastLoad.file
    IN  (AfterStart /\ lastLoad.result # "none") =>
            /\ (lastLoad.result = "ok") =>
                  /\ f.exists /\ f.length >= FrameBytes /\ f.length > 0
                  /\ totalFrames = f.length \div FrameBytes /\ totalFrames >= 1
                  /\ fileSize = f.length
            /\ (~f.exists \/ f.length = 0 \/ f.length < FrameBytes)
                  => (lastLoad.result = "failed")

\* C22 witness: a file of one frame and a byte was loaded.
C22_Witness ==
    /\ AfterStart /\ lastLoad.result = "ok"
    /\ lastLoad.file.length = FrameBytes + 1 /\ totalFrames = 1 /\ fileSize = FrameBytes + 1

\* C23: after loadMediaFile has reported failure the session is still alive,
\* able to attempt another load.
C23_FailedLoadKeepsSession ==
    (lastLoad.result = "failed") => (session # "exited")

\* C24: at session start, after a successful load: loopStart = 0, loopEnd =
\* 34 frames, loop enabled, boomerang off, position = loopStart, not paused
\* and, in the frequency variant, the rate is the baseline DEFAULT_FREQUENCY.
C24_SessionStartState ==
    (lastOp = "init" /\ session = "running") =>
        /\ loopStart = 0
        /\ loopEnd = RoundD(DefaultLoopFrames * FrameTicks)
        /\ loopEnabled /\ ~boomerangMode
        /\ audioPosition = loopStart
        /\ ~isPaused
        /\ playbackFrequency = DEFAULT_FREQUENCY

\* C25: after any sequence of volume commands the volume lies in [0.0, 2.0].
C25_VolumeInRange == audioVolume >= 0 /\ audioVolume <= VolumeMax

\* A keypad + pressed at the ceiling, and a keypad - pressed at the floor,
\* were clamped.
C25_Witness ==
    /\ keyCount = 1
    /\ \/ lastOp = "KeyKpAdd" /\ audioVolume = VolumeMax
       \/ lastOp = "KeyKpSubtract" /\ audioVolume = 0

\* C26: every pixel drawn from a byte b has colorIndex = (b div 14) mod 18,
\* in 0..17, and intensity = ((b mod 14) + 1) / 14 to the precision of a
\* float; b = 0 gives (0, 1/14), b = 13 gives (0, 1), b = 14 gives (1, 1/14).
C26_Palette ==
    \A p \in pixels :
        /\ p.colorIndex \in 0..17
        /\ p.colorIndex = (p.value \div 14) % 18
        /\ 2 * Abs(14 * p.intensity - ((p.value % 14) + 1) * VolumeOne) <= 14
        /\ (p.value = 0) => (p.colorIndex = 0 /\ p.intensity = RoundQ(VolumeOne, 14))
        /\ (p.value = 13) => (p.colorIndex = 0 /\ p.intensity = VolumeOne)
        /\ (p.value = 14) => (p.colorIndex = 1 /\ p.intensity = RoundQ(VolumeOne, 14))

\* A render pass drew the bytes 0, 13 and 14.
C26_Witness ==
    /\ lastOp = "render"
    /\ \A b \in {0, 13, 14} : \E p \in pixels : p.value = b

\* A render pass drew a byte of the last four, whose colour wraps to 0.
C26_WitnessWrap ==
    /\ lastOp = "render"
    /\ \E p \in pixels : p.value >= 252 /\ p.colorIndex = 0

\* C27: every sample's advance is computed from the rate current at that
\* sample, so a rate changed by a key or by a boomerang flip moves the very
\* next sample, also inside the block in which it changed.
C27_AdvanceUsesCurrentRate ==
    AfterSample => (effectiveAdvance = EffectiveAdvance(rateBefore))

\* C28: with a wrapped loop (loopStart > loopEnd) in boomerang mode, the
\* position after a reflecting advance lies inside the active region
\* [loopStart, N) u [0, loopEnd].  Stated for bounds inside the file and an
\* advance that starts inside the active region.
C28_WrappedReflectionInside ==
    LET InActiveRegion(p) ==
            \/ (p >= loopStart /\ p < FileTicks)
            \/ (p >= 0 /\ p <= loopEnd)
    IN  (/\ AfterSample /\ boomerangMode /\ loopStart > loopEnd
         /\ loopEnd >= 0 /\ loopStart < FileTicks
         /\ InActiveRegion(posBefore)
         /\ branch \in {"wReflectEnd", "wReflect"})
            => InActiveRegion(audioPosition)

\* C30: the input context never reads an intermediate position: the value
\* ',' or '.' stores as a loop bound is the position a completed advance
\* left, never the value between `audioPosition += advance` and the end of
\* handleLoop.
C30_NoIntermediatePosition ==
    LET completed ==
            {audioPosition,
             handleLoop(FAdd(audioPosition, effectiveAdvance), FileTicks, effectiveAdvance).pos}
    IN  /\ (lastOp = "KeyComma" /\ ~loopEnabled) => (loopStart \in completed)
        /\ (lastOp = "KeyPeriod" /\ ~loopEnabled) => (loopEnd \in completed)

\* C29: within one handleLoop call every read of a loop bound returns the
\* same value: the bounds the pin or the reflection reads are the bounds the
\* classification of the stepped position read.
C29_ConsistentConfiguration ==
    [][(seen.pending /\ ~seen'.pending) =>
          /\ ("loopStart" \in BoundsReadAgain(branch')) => (loopStart = seen.loopStart)
          /\ ("loopEnd" \in BoundsReadAgain(branch')) => (loopEnd = seen.loopEnd)]_vars

\* C31: a seek that lands while the callback advances is not lost: when the
\* callback stores its sum after a seek has changed audioPosition, the stored
\* position is the sought position plus the advance, loop-resolved.
C31_SeekNotLost ==
    [][(seen.loaded /\ ~seen'.loaded /\ audioPosition # seen.position) =>
          (audioPosition' =
              handleLoop(FAdd(audioPosition, effectiveAdvance), FileTicks,
                         effectiveAdvance).pos)]_vars

\* The branches of handleLoop that reflect the position and negate the rate.
ReflectingBranches == {"reflectEnd", "reflectStart", "wReflectEnd", "wReflect"}

\* C32: one advance step changes only the position and, at most, the sign of
\* the rate: the magnitude of the rate, the loop bounds, the loop and boomerang
\* flags, paused, muted and the volume are unchanged, and the sign changes only
\* with loop and boomerang on, loopStart # loopEnd and a reflecting branch.
C32_AdvanceFrame ==
    [][(lastOp' = "sample") =>
          /\ Abs(playbackMultiplier') = Abs(playbackMultiplier)
          /\ Abs(playbackFrequency') = Abs(playbackFrequency)
          /\ UNCHANGED <<loopStart, loopEnd, loopEnabled, boomerangMode, isPaused,
                         isAudioEnabled, audioVolume>>
          /\ (playbackMultiplier' # playbackMultiplier \/ playbackFrequency' # playbackFrequency)
                => /\ loopEnabled /\ boomerangMode /\ loopStart # loopEnd
                   /\ branch' \in ReflectingBranches]_vars

\* A sample reflected at a loop boundary and negated a non-zero rate.
C32_Witness ==
    /\ AfterSample /\ branch \in ReflectingBranches
    /\ rateBefore # 0 /\ playbackMultiplier = -rateBefore

\* C33: a render tick (title bar and renderFrame) leaves the position, the
\* rate, the loop bounds and every playback flag unchanged.
C33_RenderFrame ==
    [][(lastOp' = "render") =>
          UNCHANGED <<audioPosition, playbackMultiplier, playbackFrequency, loopStart,
                      loopEnd, loopEnabled, boomerangMode, isPaused, isAudioEnabled>>]_vars

\* A render tick ran in the middle of an audio block and drew a frame from a
\* position outside the file.
C33_Witness ==
    /\ AfterRender /\ framesLeft > 0 /\ rendered # {}
    /\ (audioPosition < 0 \/ audioPosition >= FileTicks)

\* C34: in the frequency variant, after any sequence of rate commands and
\* boomerang flips, |playbackFrequency| <= 1,000,000.
C34_FrequencyBounded ==
    playbackFrequency >= -MaxFrequency /\ playbackFrequency <= MaxFrequency

\* Up was pressed at the ceiling, or Down at the floor, and was clamped.
C34_Witness ==
    \/ lastOp = "BurnKeyUp" /\ rateBefore = MaxFrequency /\ playbackFrequency = MaxFrequency
    \/ lastOp = "BurnKeyDown" /\ rateBefore = -MaxFrequency
                              /\ playbackFrequency = -MaxFrequency

\* C35: boomerang on, a non-wrapped loop inside the file, an advance shorter
\* than the loop, the position inside the loop and no key pressed: a sample
\* does not reflect at the boundary at which the sample before it reflected.
C35_ReflectionsAlternate ==
    (/\ AfterSample /\ loopEnabled /\ boomerangMode /\ keyCount = 0
     /\ 0 <= loopStart /\ loopStart < loopEnd /\ loopEnd < FileTicks
     /\ Abs(effectiveAdvance) < loopEnd - loopStart
     /\ loopStart <= posBefore /\ posBefore <= loopEnd)
        => ~(branch = prevBranch /\ branch \in {"reflectEnd", "reflectStart"})

\* C36: loop on, boomerang off, 0 <= loopStart < loopEnd: an advance that
\* starts in [loopStart, loopEnd] ends in [loopStart, loopEnd], whatever the
\* sign and the magnitude of the rate.
C36_LoopConfines ==
    (/\ AfterSample /\ loopEnabled /\ ~boomerangMode
     /\ 0 <= loopStart /\ loopStart < loopEnd
     /\ loopStart <= posBefore /\ posBefore <= loopEnd)
        => (loopStart <= audioPosition /\ audioPosition <= loopEnd)

\* An advance left the loop forwards from inside it and resumed at a loopStart
\* that is not the start of the file.
C36_Witness ==
    /\ AfterSample /\ loopEnabled /\ ~boomerangMode
    /\ 0 < loopStart /\ loopStart < loopEnd
    /\ loopStart <= posBefore /\ posBefore <= loopEnd
    /\ branch = "toStart" /\ audioPosition = loopStart

\* An advance left the loop backwards from inside it and resumed at loopEnd.
C36_WitnessReverse ==
    /\ AfterSample /\ loopEnabled /\ ~boomerangMode
    /\ 0 <= loopStart /\ loopStart < loopEnd
    /\ loopStart <= posBefore /\ posBefore <= loopEnd
    /\ branch = "toEnd" /\ audioPosition = loopEnd

C39_BoundsFrozenWhileLooping ==
    [][loopEnabled => UNCHANGED <<loopStart, loopEnd>>]_vars

\* ',' or '.' was pressed with the loop on, away from the bound it would have
\* captured, and was ignored.
C39_Witness ==
    /\ loopEnabled
    /\ \/ lastOp = "KeyComma" /\ audioPosition # loopStart
       \/ lastOp = "KeyPeriod" /\ audioPosition # loopEnd

\* ',' was pressed with the loop off and captured a position as loopStart.
C39_WitnessCapture ==
    /\ ~loopEnabled /\ lastOp = "KeyComma"
    /\ loopStart = audioPosition /\ loopStart # 0

\* C40: in the frame-stepping variants, after any sequence of timer ticks and
\* key commands (left, right, home, end, reset, pause), 0 <= currentFrame <
\* totalFrames, and every render reads the bytes of one whole frame,
\* [f * frameBytes, f * frameBytes + frameBytes), inside the buffer.
C40_FrameStepInRange ==
    /\ 0 <= currentFrame /\ currentFrame < totalFrames
    /\ Cardinality(rendered) <= 1
    /\ \A f \in rendered :
          /\ 0 <= f
          /\ f * FrameBytes + FrameBytes <= fileSize

\* C40 witness: a pass drew the last frame of a file of several frames, the
\* frame whose bytes end where the buffer ends.
C40_Witness ==
    /\ lastOp = "renderFrame"
    /\ totalFrames > 1
    /\ rendered = {totalFrames - 1}

\* C40 witness: Left from frame 0 wrapped to the last frame of a file that
\* ends with a partial frame.
C40_WitnessWrap ==
    /\ lastOp = "left"
    /\ currentFrame = totalFrames - 1
    /\ rendered = {0}
    /\ fileSize > totalFrames * FrameBytes

====
